---- MODULE Spec2Model ----
(***************************************************************************)
(* A model of the browser game client of src/game.js (class GameClient).   *)
(*                                                                         *)
(* The client is single threaded: every handler (key event, focus loss,    *)
(* timer tick, transport event, resize, image load) runs to completion, so *)
(* each handler is one action.  The imperative handlers are written as     *)
(* operators over a record of the object's fields, one operator per method *)
(* of the class, composed in the order of the method's statements.         *)
(***************************************************************************)
EXTENDS Integers, Sequences, FiniteSets, TLC

VARIABLES
    keysPressed,       \* this.keysPressed: the own keys of the object, in insertion order
    currentMovement,   \* this.currentMovement: a direction or Null
    movementInterval,  \* this.movementInterval: a timer id, 0 for null
    liveTimers,        \* the interval timers of the host that are armed and not cleared
    nextTimerId,       \* the id the host hands out at the next setInterval
    readyState,        \* this.ws.readyState
    playerId,          \* this.playerId
    players,           \* this.players: id -> entity
    avatars,           \* this.avatars: name -> avatar definition
    myPlayer,          \* this.myPlayer: an entity or NullEntity
    viewportX,         \* this.viewportX
    viewportY,         \* this.viewportY
    canvas,            \* <<this.canvas.width, this.canvas.height>>
    out,               \* history: the messages the last handler handed to ws.send, in order
    firstSent,         \* history: the first message handed to ws.send on the connection
    joinsSent,         \* history: the number of join_game messages handed to ws.send
    opened,            \* history: the open event of the connection was handled
    redraws,           \* history: the number of draw() calls of the last handler
    drawn,             \* history: what the draw() call of the last handler saw and loaded
    error,             \* history: the exception the last handler ended with, "none" if none
    pressOrder,        \* history: the direction keys held, in the order of their key-down events
    lastEvent          \* history: the event the last handler was run for

moveVars  == <<keysPressed, currentMovement, movementInterval, liveTimers, nextTimerId>>
worldVars == <<playerId, players, avatars, myPlayer, viewportX, viewportY>>
vars == <<keysPressed, currentMovement, movementInterval, liveTimers, nextTimerId,
          readyState, playerId, players, avatars, myPlayer, viewportX, viewportY,
          canvas, out, firstSent, joinsSent, opened, redraws, drawn, error,
          pressOrder, lastEvent>>

(***************************************************************************)
(* Values                                                                  *)
(***************************************************************************)
Null == "null"

\* The largest timer id the model lets the host hand out.
MaxTimerId == 4

worldWidth == 2048
worldHeight == 2048

ArrowKeys == {"ArrowUp", "ArrowDown", "ArrowLeft", "ArrowRight"}
\* The key values of the key events: the four arrow keys and one other key.
Keys == ArrowKeys \cup {"a"}

CONNECTING == "CONNECTING"
OPEN == "OPEN"
CLOSING == "CLOSING"
CLOSED == "CLOSED"

JoinMsg == [action |-> "join_game", username |-> "Tim"]
MoveMsg(direction) == [action |-> "move", direction |-> direction]
StopMsg == [action |-> "stop"]
\* firstSent while nothing was sent
NoMessage == [action |-> "none"]

\* this.myPlayer when it holds no entity (null at construction, undefined after a failed lookup)
NullEntity == [null |-> TRUE]

\* drawn when the handler did not call draw()
NoSnapshot == [none |-> TRUE]

\* the result of drawAvatar when it returns before loading an image
NoFrame == "none"

\* The window sizes of the model, <<innerWidth, innerHeight>>: all even, so that
\* canvas.width / 2 and canvas.height / 2 are whole numbers; the last one is
\* larger than the world on both axes.
CanvasSizes == {<<800, 600>>, <<1280, 720>>, <<2560, 2160>>}

\* The entities the server sends in the model.  Positions are chosen to put the
\* centred viewport below 0, inside the range and beyond it, and outside the world.
Entity(id, x, y, avatar, facing, animationFrame) ==
    [id |-> id, x |-> x, y |-> y, avatar |-> avatar, facing |-> facing,
     animationFrame |-> animationFrame]
EntityPool ==
    {Entity("p1", 100, 100, "a1", "south", 0),
     Entity("p1", 2000, 1900, "a1", "north", 1),
     Entity("p2", 1024, 1024, "a2", "south", 0),
     Entity("p2", -40, 3000, "a1", "west", 2)}
Ids == {e.id : e \in EntityPool}

\* The avatar definitions the server sends in the model; two of them have the same
\* name.  For the entity facing north with animation frame 1 the first has no frame
\* at that index and the second no frames for that facing.
AvatarPool ==
    {[name |-> "a1", frames |-> [south |-> <<"s0", "s1">>, north |-> <<"n0">>]],
     [name |-> "a1", frames |-> [south |-> <<"t0">>]],
     [name |-> "a2", frames |-> [south |-> <<"u0">>, west |-> <<>>]]}
AvatarNames == {a.name : a \in AvatarPool}

\* Objects used as maps: functions from a finite set of keys.
EmptyMap == [k \in {} |-> NullEntity]
PlayerMaps ==
    {m \in UNION {[D -> EntityPool] : D \in SUBSET Ids} : \A id \in DOMAIN m : m[id].id = id}
AvatarMaps ==
    {m \in UNION {[D -> AvatarPool] : D \in SUBSET AvatarNames} :
        \A n \in DOMAIN m : m[n].name = n}

\* The inbound messages of the model, as JSON.parse returns them.
JoinAccepted ==
    {[action |-> "join_game", success |-> TRUE, playerId |-> id, players |-> ps, avatars |-> as] :
        id \in Ids, ps \in {m \in PlayerMaps : m # EmptyMap}, as \in {m \in AvatarMaps : "a1" \in DOMAIN m}}
JoinRejected == {[action |-> "join_game", success |-> FALSE, error |-> "server full"]}
PlayerJoined ==
    {[action |-> "player_joined", player |-> e, avatar |-> a] : e \in EntityPool, a \in AvatarPool}
PlayerJoinedNoAvatar == {[action |-> "player_joined", player |-> e] : e \in EntityPool}
PlayersMoved == {[action |-> "players_moved", players |-> ps] : ps \in PlayerMaps}
PlayerLeft == {[action |-> "player_left", playerId |-> id] : id \in Ids \cup {"p3"}}
UnknownAction == {[action |-> "ping"]}
Messages ==
    JoinAccepted \cup JoinRejected \cup PlayerJoined \cup PlayerJoinedNoAvatar
        \cup PlayersMoved \cup PlayerLeft \cup UnknownAction

\* The inbound frames: the text of a message, or text that is not JSON.
Frames == {[json |-> TRUE, message |-> m] : m \in Messages} \cup {[json |-> FALSE]}

(***************************************************************************)
(* Movement controller (game.js 56-167)                                    *)
(*                                                                         *)
(* g is the record of the fields the movement methods read and write:      *)
(* keysPressed, currentMovement, movementInterval, liveTimers,             *)
(* nextTimerId, readyState, out.                                           *)
(***************************************************************************)
getDirectionFromKey(key) ==
    CASE key = "ArrowUp" -> "up"
      [] key = "ArrowDown" -> "down"
      [] key = "ArrowLeft" -> "left"
      [] key = "ArrowRight" -> "right"
      [] OTHER -> Null

\* this.keysPressed[key] is truthy: key is an own key of the object.
IsPressed(keys, key) == \E i \in 1..Len(keys) : keys[i] = key

\* this.keysPressed[key] = true: a new own key goes last, an existing one keeps its place.
SetKey(keys, key) == IF IsPressed(keys, key) THEN keys ELSE Append(keys, key)

\* delete this.keysPressed[key]
DeleteKey(keys, key) == SelectSeq(keys, LAMBDA k : k # key)

\* this.ws.send(JSON.stringify(message))
wsSend(g, message) == [g EXCEPT !.out = Append(@, message)]

\* clearInterval(id)
clearInterval(g, id) == [g EXCEPT !.liveTimers = @ \ {id}]

\* this.movementInterval = setInterval(callback, 100)
setInterval(g) ==
    [g EXCEPT !.liveTimers = @ \cup {g.nextTimerId},
              !.movementInterval = g.nextTimerId,
              !.nextTimerId = @ + 1]

sendMovementCommandUnguarded(g, direction) ==
    [wsSend(g, MoveMsg(direction)) EXCEPT !.currentMovement = direction]

sendMovementCommand(g, direction) ==
    IF g.readyState # OPEN
    THEN g
    ELSE [wsSend(g, MoveMsg(direction)) EXCEPT !.currentMovement = direction]

sendStopCommandUnguarded(g) ==
    [wsSend(g, StopMsg) EXCEPT !.currentMovement = Null]

sendStopCommand(g) ==
    IF g.readyState # OPEN
    THEN g
    ELSE [wsSend(g, StopMsg) EXCEPT !.currentMovement = Null]

stopContinuousMovementKeepTimer(g) ==
    IF g.currentMovement # Null
    THEN [sendStopCommand(g) EXCEPT !.currentMovement = Null]
    ELSE g

stopContinuousMovementLeak(g) ==
    LET g1 == [g EXCEPT !.movementInterval = 0]
    IN  IF g1.currentMovement # Null
        THEN [sendStopCommand(g1) EXCEPT !.currentMovement = Null]
        ELSE g1

stopContinuousMovement(g) ==
    LET g1 == IF g.movementInterval # 0
              THEN [clearInterval(g, g.movementInterval) EXCEPT !.movementInterval = 0]
              ELSE g
    IN  IF g1.currentMovement # Null
        THEN [sendStopCommand(g1) EXCEPT !.currentMovement = Null]
        ELSE g1

startContinuousMovementNoStop(g, direction) ==
    LET g1 == IF g.movementInterval # 0
              THEN [clearInterval(g, g.movementInterval) EXCEPT !.movementInterval = 0]
              ELSE g
        g2 == [g1 EXCEPT !.currentMovement = direction]
        g3 == sendMovementCommand(g2, direction)
    IN  setInterval(g3)

startContinuousMovementKeepTimer(g, direction) ==
    IF g.movementInterval # 0
    THEN sendMovementCommand([g EXCEPT !.currentMovement = direction], direction)
    ELSE setInterval(sendMovementCommand([g EXCEPT !.currentMovement = direction], direction))

startContinuousMovement(g, direction) ==
    LET g1 == stopContinuousMovement(g)
        g2 == [g1 EXCEPT !.currentMovement = direction]
        g3 == sendMovementCommand(g2, direction)
    IN  setInterval(g3)

\* Object.keys(this.keysPressed).map(getDirectionFromKey).filter(dir => dir)
ActiveDirections(keys) ==
    SelectSeq([i \in 1..Len(keys) |-> getDirectionFromKey(keys[i])], LAMBDA d : d # Null)

updateMovementLastWins(g) ==
    LET activeDirections == ActiveDirections(g.keysPressed)
    IN  IF Len(activeDirections) = 0
        THEN stopContinuousMovement(g)
        ELSE LET newMovement == activeDirections[Len(activeDirections)]
             IN  IF newMovement # g.currentMovement
                 THEN startContinuousMovement(g, newMovement)
                 ELSE g

updateMovement(g) ==
    LET activeDirections == ActiveDirections(g.keysPressed)
    IN  IF Len(activeDirections) = 0
        THEN stopContinuousMovement(g)
        ELSE LET newMovement == activeDirections[1]
             IN  IF newMovement # g.currentMovement
                 THEN startContinuousMovement(g, newMovement)
                 ELSE g

handleKeyDownNoHeldCheck(g, key) ==
    LET direction == getDirectionFromKey(key)
    IN  IF direction # Null
        THEN startContinuousMovement([g EXCEPT !.keysPressed = SetKey(@, key)], direction)
        ELSE g

handleKeyDown(g, key) ==
    LET direction == getDirectionFromKey(key)
    IN  IF direction # Null /\ ~IsPressed(g.keysPressed, key)
        THEN updateMovement([g EXCEPT !.keysPressed = SetKey(@, key)])
        ELSE g

handleKeyUp(g, key) ==
    LET direction == getDirectionFromKey(key)
    IN  IF direction # Null /\ IsPressed(g.keysPressed, key)
        THEN updateMovement([g EXCEPT !.keysPressed = DeleteKey(@, key)])
        ELSE g

\* the blur listener
handleBlur(g) == stopContinuousMovement([g EXCEPT !.keysPressed = <<>>])

intervalCallbackUnguardedSend(g) ==
    IF g.currentMovement # Null
    THEN wsSend(g, MoveMsg(g.currentMovement))
    ELSE g

\* the setInterval callback
intervalCallback(g) ==
    IF g.currentMovement # Null
    THEN sendMovementCommand(g, g.currentMovement)
    ELSE g

\* joinGame, called by ws.onopen
joinGame(g) == wsSend(g, JoinMsg)

(***************************************************************************)
(* The fields of the object as the record the movement methods work on; a  *)
(* handler starts with nothing sent.                                       *)
(***************************************************************************)
Game ==
    [keysPressed |-> keysPressed, currentMovement |-> currentMovement,
     movementInterval |-> movementInterval, liveTimers |-> liveTimers,
     nextTimerId |-> nextTimerId, readyState |-> readyState, out |-> <<>>]

\* The handler's result becomes the next state.  A handler that would take a
\* timer id beyond MaxTimerId is not run: the ids of the host grow without end.
StoreGame(g) ==
    /\ g.nextTimerId <= MaxTimerId + 1
    /\ keysPressed' = g.keysPressed
    /\ currentMovement' = g.currentMovement
    /\ movementInterval' = g.movementInterval
    /\ liveTimers' = g.liveTimers
    /\ nextTimerId' = g.nextTimerId
    /\ out' = g.out
    /\ firstSent' = IF firstSent = NoMessage /\ g.out # <<>> THEN g.out[1] ELSE firstSent
    /\ joinsSent' = joinsSent + Len(SelectSeq(g.out, LAMBDA m : m.action = "join_game"))

NoDraw == redraws' = 0 /\ drawn' = NoSnapshot /\ error' = "none"

Init ==
    /\ keysPressed = <<>>
    /\ currentMovement = Null
    /\ movementInterval = 0
    /\ liveTimers = {}
    /\ nextTimerId = 1
    /\ readyState = CONNECTING
    /\ out = <<>>
    /\ firstSent = NoMessage
    /\ joinsSent = 0
    /\ opened = FALSE
    /\ drawn = NoSnapshot
    /\ pressOrder = <<>>
    /\ lastEvent = [type |-> "init"]
    /\ redraws = 0
    /\ error = "none"
    /\ playerId = Null
    /\ players = EmptyMap
    /\ avatars = EmptyMap
    /\ myPlayer = NullEntity
    /\ viewportX = 0
    /\ viewportY = 0
    /\ canvas \in CanvasSizes

(***************************************************************************)
(* Keyboard, focus and timer events                                        *)
(***************************************************************************)
KeyDown(key) ==
    /\ StoreGame(handleKeyDown(Game, key))
    /\ pressOrder' = IF key \in ArrowKeys /\ ~IsPressed(pressOrder, key)
                     THEN Append(pressOrder, key) ELSE pressOrder
    /\ lastEvent' = [type |-> "keydown", key |-> key]
    /\ NoDraw
    /\ UNCHANGED <<readyState, canvas, opened>>
    /\ UNCHANGED worldVars

KeyUp(key) ==
    /\ StoreGame(handleKeyUp(Game, key))
    /\ pressOrder' = SelectSeq(pressOrder, LAMBDA k : k # key)
    /\ lastEvent' = [type |-> "keyup", key |-> key]
    /\ NoDraw
    /\ UNCHANGED <<readyState, canvas, opened>>
    /\ UNCHANGED worldVars

Blur ==
    /\ StoreGame(handleBlur(Game))
    /\ pressOrder' = <<>>
    /\ lastEvent' = [type |-> "blur"]
    /\ NoDraw
    /\ UNCHANGED <<readyState, canvas, opened>>
    /\ UNCHANGED worldVars

Tick(id) ==
    /\ id \in liveTimers
    /\ StoreGame(intervalCallback(Game))
    /\ lastEvent' = [type |-> "tick", timer |-> id]
    /\ NoDraw
    /\ UNCHANGED <<readyState, canvas, pressOrder, opened>>
    /\ UNCHANGED worldVars

(***************************************************************************)
(* Transport events (connectToServer, game.js 169-189)                     *)
(***************************************************************************)
WsOpen ==
    /\ readyState = CONNECTING
    /\ readyState' = OPEN
    /\ StoreGame(joinGame([Game EXCEPT !.readyState = OPEN]))
    /\ opened' = TRUE
    /\ lastEvent' = [type |-> "open"]
    /\ NoDraw
    /\ UNCHANGED <<canvas, pressOrder>>
    /\ UNCHANGED worldVars

\* ws.onerror only logs
WsError ==
    /\ readyState \in {CONNECTING, OPEN}
    /\ readyState' = CLOSED
    /\ out' = <<>>
    /\ lastEvent' = [type |-> "error"]
    /\ NoDraw
    /\ UNCHANGED <<canvas, pressOrder, firstSent, joinsSent, opened>>
    /\ UNCHANGED moveVars
    /\ UNCHANGED worldVars

\* the peer starts the closing handshake: no handler runs
WsClosing ==
    /\ readyState = OPEN
    /\ readyState' = CLOSING
    /\ out' = <<>>
    /\ lastEvent' = [type |-> "closing"]
    /\ NoDraw
    /\ UNCHANGED <<canvas, pressOrder, firstSent, joinsSent, opened>>
    /\ UNCHANGED moveVars
    /\ UNCHANGED worldVars

\* ws.onclose only logs
WsClose ==
    /\ readyState \in {CONNECTING, OPEN, CLOSING}
    /\ readyState' = CLOSED
    /\ out' = <<>>
    /\ lastEvent' = [type |-> "close"]
    /\ NoDraw
    /\ UNCHANGED <<canvas, pressOrder, firstSent, joinsSent, opened>>
    /\ UNCHANGED moveVars
    /\ UNCHANGED worldVars


(***************************************************************************)
(* World state store and viewport (game.js 35-46, 200-256, 318-336)        *)
(*                                                                         *)
(* w is the record of the fields the inbound handlers read and write:      *)
(* playerId, players, avatars, myPlayer, viewportX, viewportY, canvas,     *)
(* redraws, drawn, error.                                                  *)
(***************************************************************************)
Max(a, b) == IF a >= b THEN a ELSE b
Min(a, b) == IF a <= b THEN a ELSE b

\* map[key], undefined (NullEntity) when key is not a key of the object
Lookup(map, key) == IF key \in DOMAIN map THEN map[key] ELSE NullEntity

\* map[key] = value
Put(map, key, value) ==
    [k \in DOMAIN map \cup {key} |-> IF k = key THEN value ELSE map[k]]

\* delete map[key]
Delete(map, key) == [k \in DOMAIN map \ {key} |-> map[k]]

ObjectAssignReplace(target, source) == source

\* Object.assign(target, source)
ObjectAssign(target, source) ==
    [k \in DOMAIN target \cup DOMAIN source |->
        IF k \in DOMAIN source THEN source[k] ELSE target[k]]

worldToScreen(w, worldX, worldY) ==
    [x |-> worldX - w.viewportX, y |-> worldY - w.viewportY]

drawAvatarFirstFrameFallback(w, player) ==
    IF player.avatar \notin DOMAIN w.avatars
    THEN NoFrame
    ELSE LET avatar == w.avatars[player.avatar]
             screenPos == worldToScreen(w, player.x, player.y)
         IN  IF \/ screenPos.x < -50 \/ screenPos.x > w.canvas[1] + 50
                \/ screenPos.y < -50 \/ screenPos.y > w.canvas[2] + 50
             THEN NoFrame
             ELSE IF player.facing \notin DOMAIN avatar.frames
             THEN NoFrame
             ELSE LET frames == avatar.frames[player.facing]
                      frameIndex == player.animationFrame
                  IN  IF Len(frames) = 0
                      THEN NoFrame
                      ELSE IF frameIndex + 1 \notin DOMAIN frames
                      THEN frames[1]
                      ELSE frames[frameIndex + 1]

\* drawAvatar up to img.src = frameData: the frame whose image it starts to load,
\* NoFrame when it returns before that.  frames[frameIndex] of the 0-based array
\* is frames[frameIndex + 1] of the sequence.
drawAvatar(w, player) ==
    IF player.avatar \notin DOMAIN w.avatars
    THEN NoFrame
    ELSE LET avatar == w.avatars[player.avatar]
             screenPos == worldToScreen(w, player.x, player.y)
         IN  IF \/ screenPos.x < -50 \/ screenPos.x > w.canvas[1] + 50
                \/ screenPos.y < -50 \/ screenPos.y > w.canvas[2] + 50
             THEN NoFrame
             ELSE IF player.facing \notin DOMAIN avatar.frames
             THEN NoFrame
             ELSE LET frames == avatar.frames[player.facing]
                      frameIndex == player.animationFrame
                  IN  IF Len(frames) = 0
                      THEN NoFrame
                      ELSE IF frameIndex + 1 \notin DOMAIN frames
                      THEN NoFrame
                      ELSE frames[frameIndex + 1]

\* What a draw() call reads: the fields of the object as they are at the call.
Snapshot(w) ==
    [playerId |-> w.playerId, players |-> w.players, avatars |-> w.avatars,
     myPlayer |-> w.myPlayer, viewportX |-> w.viewportX, viewportY |-> w.viewportY,
     canvas |-> w.canvas]

\* draw(): this.worldImage is set by loadWorldMap before any event, so the early
\* return of line 319 is never taken.  The call paints the world at the viewport
\* offset and runs drawAvatar for every entity of the table; drawn records the
\* fields it read, the entities it ran drawAvatar for and the frames it loaded.
draw(w) ==
    [w EXCEPT !.redraws = @ + 1,
              !.drawn = [seen |-> Snapshot(w),
                         visited |-> DOMAIN w.players,
                         images |-> [id \in {i \in DOMAIN w.players :
                                                 drawAvatar(w, w.players[i]) # NoFrame}
                                         |-> drawAvatar(w, w.players[id])]]]

centerViewportOnPlayerNoClamp(w) ==
    IF w.myPlayer = NullEntity
    THEN w
    ELSE [w EXCEPT !.viewportX = w.myPlayer.x - w.canvas[1] \div 2,
                   !.viewportY = w.myPlayer.y - w.canvas[2] \div 2]

centerViewportOnPlayer(w) ==
    IF w.myPlayer = NullEntity
    THEN w
    ELSE LET x == w.myPlayer.x - w.canvas[1] \div 2
             y == w.myPlayer.y - w.canvas[2] \div 2
         IN  [w EXCEPT !.viewportX = Max(0, Min(x, worldWidth - w.canvas[1])),
                       !.viewportY = Max(0, Min(y, worldHeight - w.canvas[2]))]

\* case 'join_game'
caseJoinGame(w, message) ==
    IF message.success
    THEN LET w1 == [w EXCEPT !.playerId = message.playerId,
                             !.players = message.players,
                             !.avatars = message.avatars]
             w2 == [w1 EXCEPT !.myPlayer = Lookup(w1.players, w1.playerId)]
         IN  draw(centerViewportOnPlayer(w2))
    ELSE w

\* case 'player_joined': reading message.avatar.name of a message without avatar
\* throws after the entity was stored
casePlayerJoined(w, message) ==
    LET w1 == [w EXCEPT !.players = Put(@, message.player.id, message.player)]
    IN  IF "avatar" \notin DOMAIN message
        THEN [w1 EXCEPT !.error = "TypeError"]
        ELSE draw([w1 EXCEPT !.avatars = Put(@, message.avatar.name, message.avatar)])

\* case 'players_moved'
casePlayersMoved(w, message) ==
    LET w1 == [w EXCEPT !.players = ObjectAssign(@, message.players)]
    IN  IF Lookup(message.players, w1.playerId) # NullEntity
        THEN draw(centerViewportOnPlayer(
                 [w1 EXCEPT !.myPlayer = message.players[w1.playerId]]))
        ELSE draw(w1)

casePlayerLeftIfPresent(w, message) ==
    IF message.playerId \in DOMAIN w.players
    THEN draw([w EXCEPT !.players = Delete(@, message.playerId)])
    ELSE w

\* case 'player_left'
casePlayerLeft(w, message) ==
    draw([w EXCEPT !.players = Delete(@, message.playerId)])

handleServerMessage(w, message) ==
    CASE message.action = "join_game" -> caseJoinGame(w, message)
      [] message.action = "player_joined" -> casePlayerJoined(w, message)
      [] message.action = "players_moved" -> casePlayersMoved(w, message)
      [] message.action = "player_left" -> casePlayerLeft(w, message)
      [] OTHER -> w

\* ws.onmessage: JSON.parse, then handleServerMessage
onmessage(w, frame) ==
    IF ~frame.json
    THEN [w EXCEPT !.error = "SyntaxError"]
    ELSE handleServerMessage(w, frame.message)

\* worldImage.onload of loadWorldMap
onload(w) == draw(w)

handleResizeRecentre(w, size) ==
    draw(centerViewportOnPlayer([w EXCEPT !.canvas = size]))

\* the resize listener of setupCanvas
handleResize(w, size) == draw([w EXCEPT !.canvas = size])

\* The fields of the object as the record the inbound handlers work on; a
\* handler starts with nothing drawn and nothing thrown.
World ==
    [playerId |-> playerId, players |-> players, avatars |-> avatars,
     myPlayer |-> myPlayer, viewportX |-> viewportX, viewportY |-> viewportY,
     canvas |-> canvas, redraws |-> 0, drawn |-> NoSnapshot, error |-> "none"]

StoreWorld(w) ==
    /\ playerId' = w.playerId
    /\ players' = w.players
    /\ avatars' = w.avatars
    /\ myPlayer' = w.myPlayer
    /\ viewportX' = w.viewportX
    /\ viewportY' = w.viewportY
    /\ canvas' = w.canvas
    /\ redraws' = w.redraws
    /\ drawn' = w.drawn
    /\ error' = w.error

OnMessage(frame) ==
    /\ readyState = OPEN
    /\ StoreWorld(onmessage(World, frame))
    /\ out' = <<>>
    /\ lastEvent' = [type |-> "message", frame |-> frame]
    /\ UNCHANGED <<readyState, pressOrder, firstSent, joinsSent, opened>>
    /\ UNCHANGED moveVars

Resize(size) ==
    /\ StoreWorld(handleResize(World, size))
    /\ out' = <<>>
    /\ lastEvent' = [type |-> "resize", size |-> size]
    /\ UNCHANGED <<readyState, pressOrder, firstSent, joinsSent, opened>>
    /\ UNCHANGED moveVars

\* The load event of the world image (loadWorldMap).  The host delivers it at
\* most once, at a time of its choosing; the handler assigns no field of the
\* object, so a second delivery reaches no state and takes no step that the
\* single delivery, made at that later time, does not, and the model keeps no
\* count of the deliveries.
WorldImageLoad ==
    /\ StoreWorld(onload(World))
    /\ out' = <<>>
    /\ lastEvent' = [type |-> "load"]
    /\ UNCHANGED <<readyState, pressOrder, firstSent, joinsSent, opened>>
    /\ UNCHANGED moveVars

NextWorld ==
    \/ \E frame \in Frames : OnMessage(frame)
    \/ \E size \in CanvasSizes : Resize(size)
    \/ WorldImageLoad
    \/ WsOpen
    \/ WsError
    \/ WsClosing
    \/ WsClose

NextInput ==
    \/ \E key \in Keys : KeyDown(key)
    \/ \E key \in Keys : KeyUp(key)
    \/ Blur
    \/ \E id \in 1..MaxTimerId : Tick(id)
    \/ WsOpen
    \/ WsError
    \/ WsClosing
    \/ WsClose

\* The keyboard, focus, timer and transport events.
SpecInput == Init /\ [][NextInput]_vars

\* The inbound frames, the resize events, the load of the world image and the
\* transport events.
SpecWorld == Init /\ [][NextWorld]_vars

Next == NextInput \/ NextWorld

Spec == Init /\ [][Next]_vars

\* A session small enough to run every kind of event together: two arrow keys
\* and one other key; one accepted join per version of the local entity, a
\* rejected join, a player_joined, the players_moved events for one entity, the
\* player_left events, an unknown action and a frame that is not JSON.
SessionKeys == {"ArrowUp", "ArrowRight", "a"}
SessionMessages ==
    {m \in JoinAccepted : /\ m.playerId = "p1"
                          /\ DOMAIN m.players = Ids
                          /\ m.players["p2"].x = 1024
                          /\ DOMAIN m.avatars = {"a1"}
                          /\ "north" \in DOMAIN m.avatars["a1"].frames}
        \cup JoinRejected
        \cup {m \in PlayerJoined : m.player.id = "p2" /\ m.player.x = 1024 /\ m.avatar.name = "a2"}
        \cup {m \in PlayersMoved : Cardinality(DOMAIN m.players) = 1}
        \cup PlayerLeft
        \cup UnknownAction
SessionFrames ==
    {[json |-> TRUE, message |-> m] : m \in SessionMessages} \cup {[json |-> FALSE]}

NextSession ==
    \/ \E key \in SessionKeys : KeyDown(key)
    \/ \E key \in SessionKeys : KeyUp(key)
    \/ Blur
    \/ \E id \in 1..MaxTimerId : Tick(id)
    \/ \E frame \in SessionFrames : OnMessage(frame)
    \/ \E size \in CanvasSizes : Resize(size)
    \/ WorldImageLoad
    \/ WsOpen
    \/ WsError
    \/ WsClosing
    \/ WsClose

\* Every kind of event, over the small session.
SpecSession == Init /\ [][NextSession]_vars

(***************************************************************************)
(* Properties of the movement controller                                   *)
(***************************************************************************)
HasStop(msgs) == \E i \in 1..Len(msgs) : msgs[i].action = "stop"
HasIntent(msgs) == \E i \in 1..Len(msgs) : msgs[i].action \in {"move", "stop"}

\* The keys of the pressed set in the order of the key-down events that put them there.
HeldInPressOrder == SelectSeq(pressOrder, LAMBDA k : IsPressed(keysPressed, k))

\* C1: between handlers the active direction is the direction of the
\* earliest-pressed key that is still in the pressed set, and it is null
\* exactly when the pressed set is empty, whatever the transport's state.
C1_ActiveIsEarliestHeld ==
    /\ currentMovement = IF HeldInPressOrder = <<>>
                         THEN Null
                         ELSE getDirectionFromKey(HeldInPressOrder[1])
    /\ (currentMovement = Null <=> keysPressed = <<>>)

\* C1 witness: the earliest key was released with two later keys still held
\* and the direction went to the next-earliest one.
C1_Witness ==
    /\ lastEvent.type = "keyup"
    /\ Len(keysPressed) >= 2
    /\ currentMovement = getDirectionFromKey(pressOrder[1])
    /\ out = <<StopMsg, MoveMsg(currentMovement)>>

\* C2: a key-down for a direction key that is already in the pressed set
\* sends nothing, leaves the pressed set and the active direction as they
\* were, and neither cancels nor re-arms the resend timer.
C2_RepeatKeyDownIgnored ==
    [][\A key \in ArrowKeys :
          (lastEvent' = [type |-> "keydown", key |-> key] /\ IsPressed(keysPressed, key))
              => /\ out' = <<>>
                 /\ UNCHANGED <<keysPressed, currentMovement>>
                 /\ UNCHANGED <<movementInterval, liveTimers, nextTimerId>>]_vars

\* C2 witness: the last event was a key-down for the earliest of two held
\* keys, so that key was already held when the event came.
C2_Witness ==
    /\ lastEvent.type = "keydown"
    /\ Len(keysPressed) >= 2
    /\ lastEvent.key = keysPressed[1]
    /\ movementInterval # 0
    /\ readyState = OPEN
    /\ out = <<>>

EmptiesPressedSet == keysPressed # <<>> /\ keysPressed' = <<>>

\* C3 as stated: an event that empties the pressed set sends exactly one
\* stop message and leaves the resend timer cancelled.
C3_Original ==
    [][EmptiesPressedSet => (out' = <<StopMsg>> /\ movementInterval' = 0)]_vars

\* C3 amended: an event that empties the pressed set leaves the resend
\* timer cancelled, and sends exactly one stop message when the transport
\* is open and nothing when it is not.
C3_StopOnRelease ==
    [][EmptiesPressedSet
          => /\ movementInterval' = 0
             /\ liveTimers' = {}
             /\ out' = IF readyState = OPEN THEN <<StopMsg>> ELSE <<>>]_vars

\* C3 witness: the last held key was released, or focus was lost with a key
\* held, and one stop message went out.
C3_Witness ==
    /\ lastEvent.type \in {"keyup", "blur"}
    /\ keysPressed = <<>>
    /\ out = <<StopMsg>>
    /\ movementInterval = 0
    /\ liveTimers = {}

ChangesDirectionWhileHeld ==
    keysPressed' # <<>> /\ currentMovement' # currentMovement

\* C4 as stated: only an event that empties the pressed set sends a stop,
\* and an event that changes the active direction while a key remains held
\* sends no stop and (the transport being open) exactly one move, for the
\* new direction.
C4_Original ==
    [][/\ HasStop(out') => EmptiesPressedSet
       /\ ChangesDirectionWhileHeld
              => /\ ~HasStop(out')
                 /\ readyState = OPEN => out' = <<MoveMsg(currentMovement')>>]_vars

\* C4 amended: a stop is sent only by an event that empties the pressed set
\* or that hands the active direction from one held key to another.  With
\* the transport open, an event that changes the active direction while a
\* key remains held sends exactly one move for the new direction, preceded
\* by one stop when a direction was active before; with the transport not
\* open it sends nothing.
C4_StopOnlyOnEmptyOrSwitch ==
    [][/\ HasStop(out')
              => \/ EmptiesPressedSet
                 \/ (currentMovement # Null /\ ChangesDirectionWhileHeld)
       /\ ChangesDirectionWhileHeld
              => out' = IF readyState # OPEN
                        THEN <<>>
                        ELSE IF currentMovement # Null
                        THEN <<StopMsg, MoveMsg(currentMovement')>>
                        ELSE <<MoveMsg(currentMovement')>>]_vars

\* C4 witness: a key-up left a key held and handed the direction over, with
\* a stop sent before the move.
C4_Witness ==
    /\ lastEvent.type = "keyup"
    /\ keysPressed # <<>>
    /\ readyState = OPEN
    /\ out = <<StopMsg, MoveMsg(currentMovement)>>

\* C5: a handler that starts with the transport not open hands no move and
\* no stop message to it; that includes the handler of the open event, so
\* an intent dropped earlier is not sent when the transport opens.
C5_NoIntentUnlessOpen ==
    [][readyState # OPEN => ~HasIntent(out')]_vars

\* C5 witness: the transport opened while a direction was active (its move
\* was dropped when the key went down) and the open handler sent the join
\* message alone.
C5_Witness ==
    /\ lastEvent.type = "open"
    /\ currentMovement # Null
    /\ movementInterval # 0
    /\ out = <<JoinMsg>>

(***************************************************************************)
(* Properties of the world state store and the viewport                    *)
(***************************************************************************)
\* The last handler was handleServerMessage, for a message with this action.
LastMessageIs(action) ==
    /\ lastEvent.type = "message"
    /\ lastEvent.frame.json
    /\ lastEvent.frame.message.action = action
LastMessage == lastEvent.frame.message

\* C6: a players_moved event leaves every entity whose id is not in its
\* players map as it was, adds no id but those of the map and removes none,
\* and leaves the avatar catalog and the local player id as they were.
C6_PlayersMovedFrame ==
    [][LastMessageIs("players_moved")'
          => LET moved == DOMAIN LastMessage'.players
             IN  /\ DOMAIN players' = DOMAIN players \cup moved
                 /\ \A id \in DOMAIN players \ moved : players'[id] = players[id]
                 /\ avatars' = avatars
                 /\ playerId' = playerId]_vars

\* C6 witness: a players_moved event carried one of the two ids in the
\* store, with a position other than the one the untouched entity has.
C6_Witness ==
    /\ LastMessageIs("players_moved")
    /\ DOMAIN players = Ids
    /\ Cardinality(DOMAIN LastMessage.players) = 1
    /\ \E id \in DOMAIN players \ DOMAIN LastMessage.players :
          \E moved \in DOMAIN LastMessage.players : players[id].x # players[moved].x
    /\ avatars # EmptyMap

\* The last handler ran centerViewportOnPlayer with a local player present.
JustCentred ==
    \/ LastMessageIs("join_game") /\ LastMessage.success /\ myPlayer # NullEntity
    \/ LastMessageIs("players_moved") /\ playerId \in DOMAIN LastMessage.players

\* C7 as stated: right after centring, the offset is within
\* [0, world size - surface size] on both axes.
C7_Original ==
    JustCentred
        => /\ 0 <= viewportX /\ viewportX <= worldWidth - canvas[1]
           /\ 0 <= viewportY /\ viewportY <= worldHeight - canvas[2]

\* C7 amended: right after centring, the offset is within
\* [0, max(0, world size - surface size)] on both axes: on an axis where the
\* surface is larger than the world the offset is 0.
C7_CentredWithinBounds ==
    JustCentred
        => /\ 0 <= viewportX /\ viewportX <= Max(0, worldWidth - canvas[1])
           /\ 0 <= viewportY /\ viewportY <= Max(0, worldHeight - canvas[2])

\* C7 witness: the viewport was centred on a local player that is outside
\* the world, and the offset was clamped at the far edge on the y axis.
C7_Witness ==
    /\ JustCentred
    /\ myPlayer.y > worldHeight
    /\ myPlayer.x < 0
    /\ viewportX = 0
    /\ canvas[2] < worldHeight
    /\ viewportY = worldHeight - canvas[2]

\* C8, for surfaces no larger than the world: in every state the visible
\* rectangle lies within the world.
C8_VisibleRectInWorld ==
    (canvas[1] <= worldWidth /\ canvas[2] <= worldHeight)
        => /\ 0 <= viewportX /\ viewportX + canvas[1] <= worldWidth
           /\ 0 <= viewportY /\ viewportY + canvas[2] <= worldHeight

\* C9: once a join was accepted, the local-player reference is the entity
\* the table holds under the local player id, and is absent when the table
\* holds none.
C9_MyPlayerIsTableEntry ==
    playerId # Null => myPlayer = Lookup(players, playerId)

\* C10: once set, the local player id is not changed by any event.
C10_PlayerIdSetOnce ==
    [][playerId # Null => playerId' = playerId]_vars

\* C11: a definition stored in the avatar catalog under a key is not
\* replaced by another definition under that key by any event.
C11_AvatarNeverReplaced ==
    [][\A name \in DOMAIN avatars :
          name \in DOMAIN avatars' => avatars'[name] = avatars[name]]_vars

\* The frame of the last event is a protocol error: not JSON, an unknown
\* action, a player_joined without avatar or a rejected join.
LastFrameIsProtocolError ==
    /\ lastEvent.type = "message"
    /\ \/ ~lastEvent.frame.json
       \/ LastMessage \in UnknownAction \cup PlayerJoinedNoAvatar \cup JoinRejected

\* C12: an inbound frame that is a protocol error leaves the entity table,
\* the avatar catalog, the local player id, the local-player reference and
\* the viewport offset as they were, and the transport stays as it was for
\* the frames that follow.
C12_ProtocolErrorChangesNothing ==
    [][LastFrameIsProtocolError'
          => /\ UNCHANGED <<players, avatars, playerId, myPlayer, viewportX, viewportY>>
             /\ readyState' = readyState]_vars

\* C13: a player_left event for an id that is not in the entity table ends
\* without error, leaves the entity table, the avatar catalog, the local
\* player id and the viewport as they were, and calls draw() once.
C13_UnknownPlayerLeft ==
    [][(LastMessageIs("player_left")' /\ LastMessage'.playerId \notin DOMAIN players)
          => /\ error' = "none"
             /\ UNCHANGED <<players, avatars, playerId, viewportX, viewportY>>
             /\ redraws' = 1
             /\ drawn'.seen.players = players]_vars

\* C13 witness: a player_left event for an id the table does not hold came
\* while the table held both other entities, and one redraw followed.
C13_Witness ==
    /\ LastMessageIs("player_left")
    /\ LastMessage.playerId = "p3"
    /\ DOMAIN players = Ids
    /\ playerId # Null
    /\ redraws = 1
    /\ error = "none"

(***************************************************************************)
(* Properties of the connection, the timer and the redraws                 *)
(***************************************************************************)
HasJoin(msgs) == \E i \in 1..Len(msgs) : msgs[i].action = "join_game"

\* C14: the connection carries exactly one join_game message once its open
\* event was handled and none before, that message is sent by the open
\* handler, and it is the first message sent on the connection.
C14_JoinOnceAndFirst ==
    /\ joinsSent = IF opened THEN 1 ELSE 0
    /\ firstSent = IF opened THEN JoinMsg ELSE NoMessage
    /\ HasJoin(out) => lastEvent.type = "open"

\* C14 witness: the open event was handled while keys were held and the
\* resend timer was armed, and the join message is the first one sent.
C14_Witness ==
    /\ lastEvent.type = "open"
    /\ Len(keysPressed) >= 2
    /\ movementInterval \in liveTimers
    /\ firstSent = JoinMsg
    /\ joinsSent = 1
    /\ out = <<JoinMsg>>

\* The fields of the object as a draw() call would read them now.
CurrentSnapshot ==
    [playerId |-> playerId, players |-> players, avatars |-> avatars,
     myPlayer |-> myPlayer, viewportX |-> viewportX, viewportY |-> viewportY,
     canvas |-> canvas]

\* C15: an inbound event that changes the entity table, the avatar catalog,
\* the local player id, the local-player reference or the viewport offset
\* calls draw() exactly once, and that call reads the fields as the event
\* leaves them.
C15_OneRedrawAfterMutation ==
    [][(/\ lastEvent'.type = "message"
        /\ <<playerId, players, avatars, myPlayer, viewportX, viewportY>>'
              # <<playerId, players, avatars, myPlayer, viewportX, viewportY>>)
          => /\ redraws' = 1
             /\ drawn'.seen = CurrentSnapshot']_vars

MoveCount(msgs) == Len(SelectSeq(msgs, LAMBDA m : m.action = "move"))

\* C16: while a key is held, a key-down for another key leaves the active
\* direction and the resend timer as they are; a key-up for the earliest of
\* several held keys hands the active direction to the next-earliest held
\* key, cancels the armed timer and arms a new one, and with the transport
\* open sends one move for the new direction, as the last message of the
\* event.
C16_ReleaseEarliestHandsOver ==
    [][\A key \in ArrowKeys :
          /\ (/\ lastEvent' = [type |-> "keydown", key |-> key]
              /\ keysPressed # <<>>
              /\ ~IsPressed(keysPressed, key))
                => /\ currentMovement' = currentMovement
                   /\ UNCHANGED <<movementInterval, liveTimers>>
          /\ (/\ lastEvent' = [type |-> "keyup", key |-> key]
              /\ Len(pressOrder) >= 2
              /\ pressOrder[1] = key)
                => /\ currentMovement' = getDirectionFromKey(pressOrder[2])
                   /\ movementInterval \notin liveTimers'
                   /\ movementInterval' # movementInterval
                   /\ liveTimers' = {movementInterval'}
                   /\ readyState = OPEN
                        => /\ MoveCount(out') = 1
                           /\ out'[Len(out')] = MoveMsg(currentMovement')]_vars

\* C16 witness: ArrowRight was released with ArrowUp held, after being the
\* active key; the direction is up, a move for up went out and a timer
\* armed after the first one is live.
C16_Witness ==
    /\ lastEvent = [type |-> "keyup", key |-> "ArrowRight"]
    /\ keysPressed = <<"ArrowUp">>
    /\ currentMovement = "up"
    /\ readyState = OPEN
    /\ out = <<StopMsg, MoveMsg("up")>>
    /\ movementInterval >= 2
    /\ liveTimers = {movementInterval}

\* C17: a tick of the resend timer happens only while a direction is
\* active; it sends exactly one move, for the active direction, when the
\* transport is open and nothing when it is not, and it changes neither the
\* direction nor the timer.
C17_TickResendsActiveDirection ==
    [][lastEvent'.type = "tick"
          => /\ currentMovement # Null
             /\ out' = IF readyState = OPEN THEN <<MoveMsg(currentMovement)>> ELSE <<>>
             /\ UNCHANGED <<keysPressed, currentMovement, movementInterval, liveTimers>>]_vars

\* C17 witness: a tick came with two keys held and the transport open, and
\* one move for the active direction went out.
C17_Witness ==
    /\ lastEvent.type = "tick"
    /\ lastEvent.timer = movementInterval
    /\ Len(keysPressed) >= 2
    /\ readyState = OPEN
    /\ out = <<MoveMsg(currentMovement)>>

\* C19: between handlers the resend timer is armed exactly when a direction
\* is active, and the armed timer is the only live one: every timer armed
\* before it has been cleared.
C19_TimerIffDirection ==
    /\ movementInterval # 0 <=> currentMovement # Null
    /\ liveTimers = IF movementInterval = 0 THEN {} ELSE {movementInterval}

\* C19 witness: the third timer armed is the live one, the two before it
\* are cleared, and a direction is active.
C19_Witness ==
    /\ movementInterval = 3
    /\ liveTimers = {3}
    /\ currentMovement # Null
    /\ Len(keysPressed) >= 2

\* The avatar of the entity is not in the catalog the redraw read, or has no
\* frame sequence for the entity's facing, or no frame at its frame index.
AssetMissing(e) ==
    \/ e.avatar \notin DOMAIN drawn.seen.avatars
    \/ e.facing \notin DOMAIN drawn.seen.avatars[e.avatar].frames
    \/ e.animationFrame + 1 \notin DOMAIN drawn.seen.avatars[e.avatar].frames[e.facing]

\* The entity's screen position is within the surface widened by the margin.
InView(e) ==
    /\ e.x - drawn.seen.viewportX >= -50
    /\ e.x - drawn.seen.viewportX <= drawn.seen.canvas[1] + 50
    /\ e.y - drawn.seen.viewportY >= -50
    /\ e.y - drawn.seen.viewportY <= drawn.seen.canvas[2] + 50

\* C18: a redraw ends without error and runs drawAvatar for every entity of
\* the table; it loads no image for an entity whose avatar, frame sequence
\* or frame is missing, and it loads the frame of every other entity in
\* view, whatever is missing for the rest.
C18_MissingAssetSkipped ==
    redraws > 0
        => /\ error = "none"
           /\ drawn.visited = DOMAIN drawn.seen.players
           /\ \A id \in DOMAIN drawn.seen.players :
                 LET e == drawn.seen.players[id]
                 IN  /\ AssetMissing(e) => id \notin DOMAIN drawn.images
                     /\ (~AssetMissing(e) /\ InView(e))
                           => /\ id \in DOMAIN drawn.images
                              /\ drawn.images[id] =
                                    drawn.seen.avatars[e.avatar].frames[e.facing][e.animationFrame + 1]

\* C18 witness: one redraw skipped an entity in view whose frame sequence
\* has no frame at its index and loaded a frame for another entity.
C18_Witness ==
    /\ redraws = 1
    /\ \E id \in DOMAIN drawn.seen.players :
          LET e == drawn.seen.players[id]
          IN  /\ InView(e)
              /\ e.avatar \in DOMAIN drawn.seen.avatars
              /\ e.facing \in DOMAIN drawn.seen.avatars[e.avatar].frames
              /\ e.animationFrame + 1 \notin DOMAIN drawn.seen.avatars[e.avatar].frames[e.facing]
              /\ id \notin DOMAIN drawn.images
    /\ drawn.images # EmptyMap

\* The event just handled is an accepted join or a players_moved event whose
\* players map holds the local player id.
HandledRecentringMessage ==
    \/ LastMessageIs("join_game")' /\ LastMessage'.success
    \/ LastMessageIs("players_moved")' /\ playerId \in DOMAIN LastMessage'.players

\* C20: only an accepted join or a players_moved event that carries the
\* local player id changes the viewport offset; every other event leaves it
\* as it was, and key, focus and timer events leave the entity table and
\* the avatar catalog as they were.
C20_ViewportFrame ==
    [][/\ ~HandledRecentringMessage => UNCHANGED <<viewportX, viewportY>>
       /\ lastEvent'.type \in {"keydown", "keyup", "blur", "tick"}
              => UNCHANGED <<players, avatars>>]_vars

\* C20 witness: after the viewport was centred away from the origin and the
\* window was resized, the last held key was released and the stop went out,
\* with the offset and the entity table still in place.
C20_Witness ==
    /\ lastEvent.type = "keyup"
    /\ out = <<StopMsg>>
    /\ viewportX > 0
    /\ myPlayer # NullEntity
    /\ viewportX # Max(0, Min(myPlayer.x - canvas[1] \div 2, worldWidth - canvas[1]))
    /\ DOMAIN players = Ids

====
